---- MODULE Spec2Model ----
(***************************************************************************)
(* Model of the restaurant receptionist chat client.                       *)
(*                                                                         *)
(*   src/index.tsx         voice client: transport callbacks push server   *)
(*                         messages on responseQueue, handleTurn consumes  *)
(*                         them through the waitMessage poll timer and     *)
(*                         frames the buffered audio as a WAV file.        *)
(*                                                                         *)
(* Part 1 models the pure functions of the PCM framer (parseMimeType,      *)
(* createWavHeader, base64ToUint8Array, concatUint8Arrays, convertToWav).  *)
(* Part 2 models the turn reassembler as a state machine whose actions are *)
(* the event-loop handlers (one action per macrotask, including the        *)
(* promise continuations it runs to completion).                           *)
(*                                                                         *)
(* JavaScript strings are TLA+ strings (Len, SubSeq and \o apply to them); *)
(* byte arrays are sequences of 0..255; a JavaScript number is a record    *)
(* [nan, n, d] standing for NaN or the rational n/d.                       *)
(***************************************************************************)
EXTENDS Integers, Sequences, FiniteSets, TLC

(***************************************************************************)
(* Bounds of the model.                                                    *)
(***************************************************************************)
\* Longest rawData list handed to convertToWav in the pure-function runs.
MaxChunks == 2

(***************************************************************************)
(* JavaScript strings.                                                     *)
(***************************************************************************)
CharAt(s, i) == SubSeq(s, i, i)

\* One-character strings for the white space that has no escape sequence:
\* U+000B LINE TABULATION, U+00A0 NO-BREAK SPACE, U+1680 OGHAM SPACE MARK
\* and U+FEFF ZERO WIDTH NO-BREAK SPACE.
VT == ""

NBSP == " "

OghamSpace == " "

BOM == "﻿"

\* ASCII whitespace of the forgiving-base64 decoder: the five characters
\* atob removes before decoding.
IsAsciiWhitespace(c) == c \in {" ", "\t", "\n", "\f", "\r"}

\* WhiteSpace and LineTerminator of ECMAScript, as removed by trim and
\* skipped by parseInt: tab, line feed, U+000B, form feed, carriage return,
\* space, U+00A0, U+1680 and U+FEFF.  The other members (U+2000..U+200A,
\* U+2028, U+2029, U+202F, U+205F, U+3000) cannot be written in a string
\* of this module, so no string here contains them.
IsWhitespace(c) ==
    c \in {" ", "\t", "\n", "\f", "\r", VT, NBSP, OghamSpace, BOM}

RECURSIVE TrimStart(_)
TrimStart(s) ==
    IF Len(s) > 0 /\ IsWhitespace(CharAt(s, 1)) THEN TrimStart(Tail(s)) ELSE s

RECURSIVE TrimEnd(_)
TrimEnd(s) ==
    IF Len(s) > 0 /\ IsWhitespace(CharAt(s, Len(s)))
    THEN TrimEnd(SubSeq(s, 1, Len(s) - 1))
    ELSE s

\* String.prototype.trim
Trim(s) == TrimEnd(TrimStart(s))

\* String.prototype.startsWith
StartsWith(s, prefix) ==
    Len(s) >= Len(prefix) /\ SubSeq(s, 1, Len(prefix)) = prefix

\* Index of the first occurrence of the one-character separator, 0 if none.
RECURSIVE IndexOfFrom(_, _, _)
IndexOfFrom(s, sep, i) ==
    IF i > Len(s) THEN 0
    ELSE IF CharAt(s, i) = sep THEN i
    ELSE IndexOfFrom(s, sep, i + 1)

\* String.prototype.split with a one-character separator: always at least
\* one element, empty pieces are kept.
RECURSIVE Split(_, _)
Split(s, sep) ==
    LET k == IndexOfFrom(s, sep, 1)
    IN  IF k = 0 THEN <<s>>
        ELSE <<SubSeq(s, 1, k - 1)>> \o Split(SubSeq(s, k + 1, Len(s)), sep)

\* xs.map(s => s.trim())
MapTrim(xs) == [i \in 1..Len(xs) |-> Trim(xs[i])]

(***************************************************************************)
(* JavaScript numbers: NaN, or the rational n/d (d > 0).                   *)
(***************************************************************************)
Num(i) == [nan |-> FALSE, n |-> i, d |-> 1]

NaN == [nan |-> TRUE, n |-> 0, d |-> 1]

NumMul(a, b) ==
    IF a.nan \/ b.nan THEN NaN
    ELSE [nan |-> FALSE, n |-> a.n * b.n, d |-> a.d * b.d]

NumDivInt(a, k) ==
    IF a.nan THEN NaN ELSE [nan |-> FALSE, n |-> a.n, d |-> a.d * k]

\* ToIntegerOrInfinity of the DataView setters: NaN becomes 0, a fraction is
\* truncated toward zero.
ToInteger(a) ==
    IF a.nan THEN 0
    ELSE IF a.n >= 0 THEN a.n \div a.d
    ELSE -((-a.n) \div a.d)

IsDigit(c) == c \in {"0", "1", "2", "3", "4", "5", "6", "7", "8", "9"}

DigitVal(c) ==
    CASE c = "0" -> 0 [] c = "1" -> 1 [] c = "2" -> 2 [] c = "3" -> 3
      [] c = "4" -> 4 [] c = "5" -> 5 [] c = "6" -> 6 [] c = "7" -> 7
      [] c = "8" -> 8 [] c = "9" -> 9

\* Number of leading decimal digits of s.
RECURSIVE DigitPrefixLen(_)
DigitPrefixLen(s) ==
    IF Len(s) > 0 /\ IsDigit(CharAt(s, 1)) THEN 1 + DigitPrefixLen(Tail(s)) ELSE 0

\* Value of a string of decimal digits, most significant first.
RECURSIVE DigitsValue(_, _)
DigitsValue(s, acc) ==
    IF Len(s) = 0 THEN acc
    ELSE DigitsValue(Tail(s), 10 * acc + DigitVal(CharAt(s, 1)))

\* parseInt(s, 10): leading whitespace is skipped, one sign is accepted, the
\* longest prefix of digits is converted and the rest ignored; NaN when there
\* is no digit.
parseInt(s) ==
    LET t      == TrimStart(s)
        signed == Len(t) > 0 /\ CharAt(t, 1) \in {"+", "-"}
        neg    == Len(t) > 0 /\ CharAt(t, 1) = "-"
        body   == IF signed THEN Tail(t) ELSE t
        k      == DigitPrefixLen(body)
        v      == DigitsValue(SubSeq(body, 1, k), 0)
    IN  IF k = 0 THEN NaN ELSE Num(IF neg THEN -v ELSE v)

(***************************************************************************)
(* parseMimeType                                                           *)
(***************************************************************************)
DefaultOptions ==
    [numChannels |-> Num(1), bitsPerSample |-> Num(16), sampleRate |-> Num(24000)]

\* Mutant of ApplyFormatPart: the leading "L" is not sliced off before
\* parseInt.
ApplyFormatPartNoSlice(options, params) ==
    LET first == Split(params[1], "/")
        bits  == IF Len(first) >= 2 THEN parseInt(first[2]) ELSE NaN
    IN  IF Len(first) >= 2 /\ StartsWith(first[2], "L") /\ ~bits.nan
        THEN [options EXCEPT !.bitsPerSample = bits]
        ELSE options

\* const formatPart = params[0].split('/')[1];
\* if (formatPart && formatPart.startsWith('L')) {
\*   const bits = parseInt(formatPart.slice(1), 10);
\*   if (!isNaN(bits)) options.bitsPerSample = bits; }
ApplyFormatPart(options, params) ==
    LET first      == Split(params[1], "/")
        defined    == Len(first) >= 2
        formatPart == IF defined THEN first[2] ELSE ""
        bits       == parseInt(SubSeq(formatPart, 2, Len(formatPart)))
    IN  IF defined /\ formatPart # "" /\ StartsWith(formatPart, "L") /\ ~bits.nan
        THEN [options EXCEPT !.bitsPerSample = bits]
        ELSE options

\* const [key, value] = param.split('=').map(s => s.trim());
\* if (key === 'rate' && value) options.sampleRate = parseInt(value, 10);
ApplyRateParam(options, param) ==
    LET kv       == MapTrim(Split(param, "="))
        key      == kv[1]
        hasValue == Len(kv) >= 2 /\ kv[2] # ""
    IN  IF key = "rate" /\ hasValue
        THEN [options EXCEPT !.sampleRate = parseInt(kv[2])]
        ELSE options

\* for (const param of params) ...
RECURSIVE RateLoop(_, _, _)
RateLoop(options, params, i) ==
    IF i > Len(params) THEN options
    ELSE RateLoop(ApplyRateParam(options, params[i]), params, i + 1)

parseMimeType(mimeType) ==
    LET params == MapTrim(Split(mimeType, ";"))
    IN  RateLoop(ApplyFormatPart(DefaultOptions, params), params, 1)

(***************************************************************************)
(* createWavHeader                                                         *)
(***************************************************************************)
HeaderSize == 44

\* 'x'.charCodeAt(0) for the characters of the four chunk identifiers.
CharCode(c) ==
    CASE c = "R" -> 82  [] c = "I" -> 73  [] c = "F" -> 70  [] c = "W" -> 87
      [] c = "A" -> 65  [] c = "V" -> 86  [] c = "E" -> 69  [] c = "f" -> 102
      [] c = "m" -> 109 [] c = "t" -> 116 [] c = " " -> 32  [] c = "d" -> 100
      [] c = "a" -> 97

\* new ArrayBuffer(len): zero-filled.
ZeroBytes(len) == [i \in 1..len |-> 0]

\* DataView.setUint8(offset, v); offsets are 0-based.
SetUint8(buf, offset, v) == [buf EXCEPT ![offset + 1] = v % 256]

\* DataView.setUint16(offset, v, true): the integer part of v modulo 2^16,
\* least significant byte first.
SetUint16LE(buf, offset, v) ==
    LET i == ToInteger(v)
    IN  [buf EXCEPT ![offset + 1] = i % 256,
                    ![offset + 2] = (i \div 256) % 256]

\* Mutant of SetUint32LE: most significant byte first.
SetUint32BE(buf, offset, v) ==
    LET i == ToInteger(v)
    IN  [buf EXCEPT ![offset + 4] = i % 256,
                    ![offset + 3] = (i \div 256) % 256,
                    ![offset + 2] = (i \div 65536) % 256,
                    ![offset + 1] = (i \div 16777216) % 256]

\* DataView.setUint32(offset, v, true): the integer part of v modulo 2^32,
\* least significant byte first.
SetUint32LE(buf, offset, v) ==
    LET i == ToInteger(v)
    IN  [buf EXCEPT ![offset + 1] = i % 256,
                    ![offset + 2] = (i \div 256) % 256,
                    ![offset + 3] = (i \div 65536) % 256,
                    ![offset + 4] = (i \div 16777216) % 256]

\* Four setUint8 calls writing a chunk identifier.
SetTag(buf, offset, tag) ==
    SetUint8(SetUint8(SetUint8(SetUint8(buf,
        offset,     CharCode(CharAt(tag, 1))),
        offset + 1, CharCode(CharAt(tag, 2))),
        offset + 2, CharCode(CharAt(tag, 3))),
        offset + 3, CharCode(CharAt(tag, 4)))

\* const byteRate = sampleRate * numChannels * bitsPerSample / 8;
ByteRate(options) ==
    NumDivInt(NumMul(NumMul(options.sampleRate, options.numChannels),
                     options.bitsPerSample), 8)

\* const blockAlign = numChannels * bitsPerSample / 8;
BlockAlign(options) ==
    NumDivInt(NumMul(options.numChannels, options.bitsPerSample), 8)

createWavHeader(dataLength, options) ==
    LET b0  == ZeroBytes(HeaderSize)
        b1  == SetTag(b0, 0, "RIFF")
        b2  == SetUint32LE(b1, 4, Num(36 + dataLength))
        b3  == SetTag(b2, 8, "WAVE")
        b4  == SetTag(b3, 12, "fmt ")
        b5  == SetUint32LE(b4, 16, Num(16))
        b6  == SetUint16LE(b5, 20, Num(1))
        b7  == SetUint16LE(b6, 22, options.numChannels)
        b8  == SetUint32LE(b7, 24, options.sampleRate)
        b9  == SetUint32LE(b8, 28, ByteRate(options))
        b10 == SetUint16LE(b9, 32, BlockAlign(options))
        b11 == SetUint16LE(b10, 34, options.bitsPerSample)
        b12 == SetTag(b11, 36, "data")
    IN  SetUint32LE(b12, 40, Num(dataLength))

(***************************************************************************)
(* base64ToUint8Array, concatUint8Arrays, convertToWav                     *)
(***************************************************************************)
B64Alphabet == "ABCDEFGHIJKLMNOPQRSTUVWXYZabcdefghijklmnopqrstuvwxyz0123456789+/"

IsB64Char(c) == \E i \in 1..Len(B64Alphabet) : CharAt(B64Alphabet, i) = c

\* The 6-bit value of a character of the base64 alphabet.
B64Value(c) == (CHOOSE i \in 1..Len(B64Alphabet) : CharAt(B64Alphabet, i) = c) - 1

\* atob removes ASCII whitespace only; any other white space is an invalid
\* character.
RECURSIVE StripWhitespace(_)
StripWhitespace(s) ==
    IF Len(s) = 0 THEN s
    ELSE IF IsAsciiWhitespace(CharAt(s, 1)) THEN StripWhitespace(Tail(s))
    ELSE CharAt(s, 1) \o StripWhitespace(Tail(s))

\* When the length is a multiple of four, one or two trailing '=' are removed.
StripPadding(s) ==
    IF Len(s) > 0 /\ Len(s) % 4 = 0 /\ CharAt(s, Len(s)) = "="
    THEN IF CharAt(s, Len(s) - 1) = "="
         THEN SubSeq(s, 1, Len(s) - 2)
         ELSE SubSeq(s, 1, Len(s) - 1)
    ELSE s

\* Groups of four characters give three bytes; a final group of three gives
\* two bytes and a final group of two gives one (the spare bits are dropped).
RECURSIVE B64Decode(_)
B64Decode(s) ==
    IF Len(s) = 0 THEN <<>>
    ELSE IF Len(s) >= 4 THEN
        LET n == B64Value(CharAt(s, 1)) * 262144 + B64Value(CharAt(s, 2)) * 4096
                 + B64Value(CharAt(s, 3)) * 64 + B64Value(CharAt(s, 4))
        IN  <<n \div 65536, (n \div 256) % 256, n % 256>>
            \o B64Decode(SubSeq(s, 5, Len(s)))
    ELSE IF Len(s) = 3 THEN
        LET n == (B64Value(CharAt(s, 1)) * 4096 + B64Value(CharAt(s, 2)) * 64
                  + B64Value(CharAt(s, 3))) \div 4
        IN  <<n \div 256, n % 256>>
    ELSE
        LET n == (B64Value(CharAt(s, 1)) * 64 + B64Value(CharAt(s, 2))) \div 16
        IN  <<n>>

\* window.atob (forgiving-base64 decode): the char codes of the binary
\* string, or an InvalidCharacterError exception.
atob(base64) ==
    LET s == StripPadding(StripWhitespace(base64))
    IN  IF Len(s) % 4 = 1 \/ \E i \in 1..Len(s) : ~IsB64Char(CharAt(s, i))
        THEN [ok |-> FALSE, bytes |-> <<>>]
        ELSE [ok |-> TRUE, bytes |-> B64Decode(s)]

\* bytes[i] = binaryString.charCodeAt(i) for every i; the exception of atob
\* propagates.
base64ToUint8Array(base64) ==
    LET binaryString == atob(base64)
    IN  IF binaryString.ok
        THEN [ok |-> TRUE,
              bytes |-> [i \in 1..Len(binaryString.bytes) |-> binaryString.bytes[i] % 256]]
        ELSE binaryString

\* arrays.reduce((acc, val) => acc + val.length, 0)
RECURSIVE TotalLength(_)
TotalLength(arrays) ==
    IF arrays = <<>> THEN 0 ELSE Len(Head(arrays)) + TotalLength(Tail(arrays))

\* result.set(arr, offset)
TypedArraySet(result, arr, offset) ==
    [i \in 1..Len(result) |->
        IF i > offset /\ i <= offset + Len(arr) THEN arr[i - offset] ELSE result[i]]

\* for (const arr of arrays) { result.set(arr, offset); offset += arr.length; }
RECURSIVE ConcatLoop(_, _, _, _)
ConcatLoop(arrays, k, result, offset) ==
    IF k > Len(arrays) THEN result
    ELSE ConcatLoop(arrays, k + 1, TypedArraySet(result, arrays[k], offset),
                    offset + Len(arrays[k]))

\* Mutant of concatUint8Arrays: the write offset is never advanced.
ConcatNoAdvance(arrays) ==
    LET RECURSIVE Loop(_, _)
        Loop(k, result) ==
            IF k > Len(arrays) THEN result
            ELSE Loop(k + 1, TypedArraySet(result, arrays[k], 0))
    IN  Loop(1, ZeroBytes(TotalLength(arrays)))

concatUint8Arrays(arrays) ==
    ConcatLoop(arrays, 1, ZeroBytes(TotalLength(arrays)), 0)

\* rawData.map(data => base64ToUint8Array(data))
DecodeAll(rawData) == [i \in 1..Len(rawData) |-> base64ToUint8Array(rawData[i])]

\* The WAV bytes, or the exception thrown while decoding a chunk.
convertToWav(rawData, mimeType) ==
    LET options    == parseMimeType(mimeType)
        decoded    == DecodeAll(rawData)
        dataChunks == [i \in 1..Len(rawData) |-> decoded[i].bytes]
        data       == concatUint8Arrays(dataChunks)
        wavHeader  == createWavHeader(Len(data), options)
    IN  IF \E i \in 1..Len(rawData) : ~decoded[i].ok
        THEN [ok |-> FALSE, bytes |-> <<>>]
        ELSE [ok |-> TRUE, bytes |-> concatUint8Arrays(<<wavHeader, data>>)]

(***************************************************************************)
(* State.                                                                  *)
(***************************************************************************)
VARIABLES
    \* --- voice client (src/index.tsx), program state ---
    sessionState,      \* the live session: connecting, open, errored, closed, failed
    responseQueue,     \* LiveServerMessage[] filled by onmessage
    audioParts,        \* base64 chunks buffered for the WAV of the turn
    isProcessingTurn,  \* the in-progress flag of processQueueContinuously
    turns,             \* the handleTurn invocations suspended in waitMessage,
                       \* each with its locals and its poll timer
    currentModelTurn,  \* the chat bubble updateModelMessage writes to (turn id)
    ui,                \* mic button and status line as left by setUiState
    \* --- history (not read by the program) ---
    enqueued,          \* every message pushed by onmessage, in order
    delivered,         \* every message a poll tick handed to a consumer, in order
    history,           \* one record per handleTurn that left its loop
    \* --- pure-function runs of the PCM framer ---
    fn,                \* the function under test
    mimeType,          \* input of parseMimeType and convertToWav
    rawData,           \* input of convertToWav
    dataLength,        \* input of createWavHeader
    hdrOptions,        \* input of createWavHeader
    wavResult,         \* [done, value]: the value the function returned
    \* --- voice client, recording ---
    isRecording,       \* the flag toggleRecording reads
    mediaRecorder,     \* the current MediaRecorder (its number) or 0 for null
    audioStream,       \* the current MediaStream (its number) or 0 for null
    micRequests,       \* getUserMedia calls that have not settled yet
    recorders,         \* every MediaRecorder created, with its pending events
    reads,             \* chunks whose arrayBuffer() has not resolved yet
    \* --- history of the recording (not read by the program) ---
    captured,          \* every dataavailable event: [recorder, empty]
    sent,              \* every sendClientContent of a chunk: [chunk, recorder]
    denial,            \* what the last denied startRecording left behind
    clicks             \* clicks on the mic button so far

clientVars == <<sessionState, responseQueue, audioParts, isProcessingTurn, turns,
                currentModelTurn, ui, enqueued, delivered, history>>

wavVars == <<fn, mimeType, rawData, dataLength, hdrOptions, wavResult>>

recVars == <<isRecording, mediaRecorder, audioStream, micRequests, recorders,
             reads, captured, sent, denial, clicks>>

vars == <<sessionState, responseQueue, audioParts, isProcessingTurn, turns,
          currentModelTurn, ui, enqueued, delivered, history,
          fn, mimeType, rawData, dataLength, hdrOptions, wavResult,
          isRecording, mediaRecorder, audioStream, micRequests, recorders,
          reads, captured, sent, denial, clicks>>

(***************************************************************************)
(* Pure-function runs: Init draws the function and its inputs, one action  *)
(* per function applies it.                                                *)
(***************************************************************************)
MimeTypes ==
    { "audio/L16;rate=16000",
      "audio/L8;rate=8000",
      "audio/L16",
      "audio/pcm;rate=16000",
      "audio/pcm",
      "audio/L24;rate=48000;channels=2",
      "audio/L32; rate = 44100 ",
      "audio/L16;codec=pcm;rate=8000",
      "audio/L16;xrate=8000",
      "audio/L16;rate=8000;rate=22050",
      "audio/Lx;rate=8000",
      "audio/L;rate=8000",
      "audio/L16;rate=abc",
      "audio/L16;rate=",
      "audio/L16;rate=0",
      "audio/L0;rate=8000",
      "audio/L16;rate=-5",
      "audio/L16;" \o VT \o "rate=8000",
      "audio/L16;rate=" \o NBSP \o "8000" \o OghamSpace,
      "audio/L" \o BOM \o "8",
      "audio" }

\* Base64 payloads: "AB", "A", bytes 1 2 3, bytes 4..8, byte 255 unpadded.
Chunks == { "QUI=", "QQ==", "AQID", "BAUGBwg=", "/w" }

\* Payloads atob rejects; the last one ends with white space that is not
\* ASCII whitespace.
BadChunks == { "!", "QUI" \o "=" \o "A", "QQ==" \o NBSP }

RECURSIVE SeqsUpTo(_, _)
SeqsUpTo(S, n) ==
    IF n = 0 THEN { <<>> }
    ELSE LET shorter == SeqsUpTo(S, n - 1)
         IN  shorter \cup { Append(q, x) : q \in { r \in shorter : Len(r) = n - 1 }, x \in S }

DataLengths == { 0, 2, 8, 258, 70000, 20000000 }

Descriptors ==
    { [numChannels |-> Num(c), bitsPerSample |-> Num(b), sampleRate |-> Num(r)] :
        c \in {1, 2}, b \in {8, 12, 16, 24, 32}, r \in {8000, 24000, 44100} }

NoResult == [done |-> FALSE, value |-> <<>>]

IdleClient ==
    /\ sessionState = "connecting"
    /\ responseQueue = <<>>
    /\ audioParts = <<>>
    /\ isProcessingTurn = FALSE
    /\ turns = <<>>
    /\ currentModelTurn = 0
    /\ ui = [micDisabled |-> FALSE, recording |-> FALSE, status |-> ""]
    /\ enqueued = <<>>
    /\ delivered = <<>>
    /\ history = <<>>

NoWavRun ==
    /\ fn = "none"
    /\ mimeType = ""
    /\ rawData = <<>>
    /\ dataLength = 0
    /\ hdrOptions = DefaultOptions
    /\ wavResult = NoResult

NoDenial == [happened |-> FALSE, status |-> "", isRecording |-> FALSE,
             capturing |-> FALSE, frameKept |-> TRUE]

NoRecording ==
    /\ isRecording = FALSE
    /\ mediaRecorder = 0
    /\ audioStream = 0
    /\ micRequests = 0
    /\ recorders = <<>>
    /\ reads = <<>>
    /\ captured = <<>>
    /\ sent = <<>>
    /\ denial = NoDenial
    /\ clicks = 0

InitWav ==
    /\ IdleClient
    /\ NoRecording
    /\ wavResult = NoResult
    /\ \/ /\ fn = "parseMimeType"
          /\ mimeType \in MimeTypes
          /\ rawData = <<>> /\ dataLength = 0 /\ hdrOptions = DefaultOptions
       \/ /\ fn = "createWavHeader"
          /\ dataLength \in DataLengths
          /\ hdrOptions \in Descriptors
          /\ mimeType = "" /\ rawData = <<>>
       \/ /\ fn = "convertToWav"
          /\ mimeType \in MimeTypes
          /\ rawData \in SeqsUpTo(Chunks, MaxChunks) \cup { <<b>> : b \in BadChunks }
          /\ dataLength = 0 /\ hdrOptions = DefaultOptions

CallParseMimeType ==
    /\ fn = "parseMimeType" /\ ~wavResult.done
    /\ wavResult' = [done |-> TRUE, value |-> parseMimeType(mimeType)]
    /\ UNCHANGED <<fn, mimeType, rawData, dataLength, hdrOptions>>
    /\ UNCHANGED clientVars
    /\ UNCHANGED recVars

CallCreateWavHeader ==
    /\ fn = "createWavHeader" /\ ~wavResult.done
    /\ wavResult' = [done |-> TRUE, value |-> createWavHeader(dataLength, hdrOptions)]
    /\ UNCHANGED <<fn, mimeType, rawData, dataLength, hdrOptions>>
    /\ UNCHANGED clientVars
    /\ UNCHANGED recVars

CallConvertToWav ==
    /\ fn = "convertToWav" /\ ~wavResult.done
    /\ wavResult' = [done |-> TRUE, value |-> convertToWav(rawData, mimeType)]
    /\ UNCHANGED <<fn, mimeType, rawData, dataLength, hdrOptions>>
    /\ UNCHANGED clientVars
    /\ UNCHANGED recVars

NextWav == CallParseMimeType \/ CallCreateWavHeader \/ CallConvertToWav

SpecWav == InitWav /\ [][NextWav]_vars

(***************************************************************************)
(* Server messages.  A part carries text, inline audio data or both; an    *)
(* absent field and an empty string are the same to the code, which only   *)
(* tests them for truthiness, and both are modelled as "".  A message      *)
(* without serverContent has no parts and no turnComplete flag.            *)
(***************************************************************************)
\* Most messages the transport delivers in one run.
MaxMsgs == 3

TextPart(t) == [text |-> t, data |-> "", mimeType |-> ""]

AudioPart(d, m) == [text |-> "", data |-> d, mimeType |-> m]

Msg(parts, tc) == [parts |-> parts, turnComplete |-> tc]

Messages ==
    { Msg(<<TextPart("Hel")>>, FALSE),
      Msg(<<TextPart("lo")>>, TRUE),
      Msg(<<>>, TRUE),
      Msg(<<>>, FALSE),
      Msg(<<AudioPart("QUI=", "audio/L16;rate=16000")>>, FALSE),
      Msg(<<TextPart("a"), AudioPart("AQID", "audio/L8;rate=8000"), TextPart("b")>>, FALSE),
      Msg(<<AudioPart("QQ==", "")>>, TRUE),
      Msg(<<AudioPart("", "audio/L16")>>, FALSE),
      Msg(<<AudioPart("!", "audio/L16")>>, TRUE),
      Msg(<<AudioPart("QQ==", ""), AudioPart("AQID", "audio/L8;rate=8000")>>, TRUE),
      Msg(<<AudioPart("", "audio/L16"), TextPart("x")>>, TRUE) }

(***************************************************************************)
(* setUiState                                                              *)
(***************************************************************************)
setUiState(isBusy, isRecordingActive) ==
    [micDisabled |-> isBusy /\ ~isRecordingActive,
     recording   |-> isRecordingActive,
     status      |-> IF isRecordingActive THEN "Listening... Tap to stop."
                     ELSE IF isBusy THEN "Assistant is responding..."
                     ELSE "Ready. Tap mic to talk."]

(***************************************************************************)
(* handleTurn                                                              *)
(***************************************************************************)
\* Mutant of AppendText: the new fragment replaces the transcript.
AppendTextOverwrite(turnText, text) == text

\* turnText += part.text
AppendText(turnText, text) == turnText \o text

\* Mutant of SetMimeOnce: every audio part sets the format.
SetMimeAlways(audioMimeType, partMimeType) == partMimeType

\* if (!audioMimeType) audioMimeType = part.inlineData.mimeType || '';
SetMimeOnce(audioMimeType, partMimeType) ==
    IF audioMimeType = "" THEN partMimeType ELSE audioMimeType

\* Mutant of ProcessPart: an inlineData without data is pushed like any other.
ProcessPartNoDataCheck(st, part) ==
    LET s1 == IF part.text # ""
              THEN [st EXCEPT !.turnText = AppendText(@, part.text),
                              !.updates  = Append(@, AppendText(st.turnText, part.text))]
              ELSE st
    IN  IF part.data # "" \/ part.mimeType # ""
        THEN [s1 EXCEPT !.audioParts    = Append(@, part.data),
                        !.audioMimeType = SetMimeOnce(@, part.mimeType)]
        ELSE s1

\* Mutant of ProcessPart: the notification carries the new fragment only.
ProcessPartDeltaUpdate(st, part) ==
    LET s1 == IF part.text # ""
              THEN [st EXCEPT !.turnText = AppendText(@, part.text),
                              !.updates  = Append(@, part.text)]
              ELSE st
    IN  IF part.data # ""
        THEN [s1 EXCEPT !.audioParts    = Append(@, part.data),
                        !.audioMimeType = SetMimeOnce(@, part.mimeType)]
        ELSE s1

\* The body of the loop over the parts of one message, for one part.  t is
\* the suspended invocation (its locals), buf the global audioParts.
ProcessPart(st, part) ==
    LET s1 == IF part.text # ""
              THEN [st EXCEPT !.turnText = AppendText(@, part.text),
                              !.updates  = Append(@, AppendText(st.turnText, part.text))]
              ELSE st
    IN  IF part.data # ""
        THEN [s1 EXCEPT !.audioParts    = Append(@, part.data),
                        !.audioMimeType = SetMimeOnce(@, part.mimeType)]
        ELSE s1

\* for (const part of message.serverContent.modelTurn.parts) ...
RECURSIVE ProcessParts(_, _, _)
ProcessParts(st, parts, i) ==
    IF i > Len(parts) THEN st
    ELSE ProcessParts(ProcessPart(st, parts[i]), parts, i + 1)

\* Mutant of IsTurnComplete: the flag is honoured only on a message that
\* carries parts.
IsTurnCompleteWithParts(message) ==
    message.turnComplete /\ Len(message.parts) > 0

\* if (message.serverContent?.turnComplete) turnComplete = true;
IsTurnComplete(message) == message.turnComplete

\* if (audioParts.length > 0 && audioMimeType)
AudioReady(parts, audioMimeType) == Len(parts) > 0 /\ audioMimeType # ""

\* Mutant of ShouldStartTurn: the in-progress flag is not consulted.
ShouldStartTurnIgnoringFlag(processing, queue) == ~(Len(queue) = 0)

\* processQueueContinuously: if (isProcessingTurn || responseQueue.length === 0) return;
ShouldStartTurn(processing, queue) == ~(processing \/ Len(queue) = 0)

\* Mutant of QueueShift: the newest message is taken.
QueueShiftLast(queue) ==
    [message |-> queue[Len(queue)], rest |-> SubSeq(queue, 1, Len(queue) - 1)]

\* responseQueue.shift() on a non-empty queue
QueueShift(queue) == [message |-> Head(queue), rest |-> Tail(queue)]

\* responseQueue.push(message)
QueuePush(queue, message) == Append(queue, message)

\* handleTurn up to its first await: the locals of a fresh invocation, now
\* suspended in waitMessage with a poll timer of its own.
NewTurn(id, buffered) ==
    [id            |-> id,
     turnText      |-> "",
     audioMimeType |-> "",
     updates       |-> <<>>,
     log           |-> <<>>,
     audioAtStart  |-> buffered]

\* The program state as a record; the handlers below are functions on it.
Program ==
    [responseQueue    |-> responseQueue,
     audioParts       |-> audioParts,
     isProcessingTurn |-> isProcessingTurn,
     turns            |-> turns,
     currentModelTurn |-> currentModelTurn,
     ui               |-> ui,
     history          |-> history]

\* Mutant of StartTurn: the in-progress flag is not set.
StartTurnNoFlag(p) ==
    LET id == Len(p.history) + Len(p.turns) + 1
    IN  [p EXCEPT !.ui               = setUiState(TRUE, FALSE),
                  !.currentModelTurn = id,
                  !.turns            = Append(@, NewTurn(id, p.audioParts))]

\* handleTurn(), lines 170-179: set the flag, disable the UI, show the
\* loading bubble and suspend in the first waitMessage.
StartTurn(p) ==
    LET id == Len(p.history) + Len(p.turns) + 1
    IN  [p EXCEPT !.isProcessingTurn = TRUE,
                  !.ui               = setUiState(TRUE, FALSE),
                  !.currentModelTurn = id,
                  !.turns            = Append(@, NewTurn(id, p.audioParts))]

\* processQueueContinuously()
processQueueContinuously(p) ==
    IF ShouldStartTurn(p.isProcessingTurn, p.responseQueue) THEN StartTurn(p) ELSE p

\* Removes the i-th suspended invocation.
RemoveAt(seq, i) == SubSeq(seq, 1, i - 1) \o SubSeq(seq, i + 1, Len(seq))

\* Mutant of FinishTurn: the queue is not looked at when the turn ends.
FinishTurnNoRestart(p, t) ==
    LET ready == AudioReady(p.audioParts, t.audioMimeType)
        wav   == IF ready THEN convertToWav(p.audioParts, t.audioMimeType)
                 ELSE [ok |-> TRUE, bytes |-> <<>>]
        rec   == [id |-> t.id, log |-> t.log, turnText |-> t.turnText,
                  updates |-> t.updates,
                  audioMimeType |-> t.audioMimeType,
                  audioAtStart |-> t.audioAtStart,
                  audioIn |-> p.audioParts,
                  outcome |-> IF ~ready THEN "text"
                              ELSE IF wav.ok THEN "played" ELSE "threw",
                  wav |-> wav.bytes]
    IN  IF ready /\ ~wav.ok
        THEN [p EXCEPT !.history = Append(@, rec)]
        ELSE [p EXCEPT !.history          = Append(@, rec),
                       !.audioParts       = IF ready THEN <<>> ELSE @,
                       !.isProcessingTurn = FALSE,
                       !.ui               = setUiState(FALSE, FALSE)]

\* handleTurn after its loop, lines 199-211, for the invocation t that has
\* just been removed from p.turns.
FinishTurn(p, t) ==
    LET ready == AudioReady(p.audioParts, t.audioMimeType)
        wav   == IF ready THEN convertToWav(p.audioParts, t.audioMimeType)
                 ELSE [ok |-> TRUE, bytes |-> <<>>]
        rec   == [id |-> t.id, log |-> t.log, turnText |-> t.turnText,
                  updates |-> t.updates,
                  audioMimeType |-> t.audioMimeType,
                  audioAtStart |-> t.audioAtStart,
                  audioIn |-> p.audioParts,
                  outcome |-> IF ~ready THEN "text"
                              ELSE IF wav.ok THEN "played" ELSE "threw",
                  wav |-> wav.bytes]
    IN  IF ready /\ ~wav.ok
        THEN \* atob threw: the promise of handleTurn rejects; nothing after
             \* the call runs.
             [p EXCEPT !.history = Append(@, rec)]
        ELSE LET p1 == [p EXCEPT !.history          = Append(@, rec),
                                 !.audioParts       = IF ready THEN <<>> ELSE @,
                                 !.isProcessingTurn = FALSE,
                                 !.ui               = setUiState(FALSE, FALSE)]
             IN  IF Len(p1.responseQueue) > 0 THEN processQueueContinuously(p1) ELSE p1

\* One tick of the poll timer of the i-th suspended invocation that finds a
\* message: the timer is cleared, the promise resolves and handleTurn runs
\* until it suspends again or returns.
TickTurn(p, i) ==
    LET got     == QueueShift(p.responseQueue)
        message == got.message
        t0      == p.turns[i]
        st0     == [turnText |-> t0.turnText, updates |-> t0.updates,
                    audioMimeType |-> t0.audioMimeType, audioParts |-> p.audioParts]
        st1     == ProcessParts(st0, message.parts, 1)
        t1      == [t0 EXCEPT !.turnText = st1.turnText,
                              !.updates = st1.updates,
                              !.audioMimeType = st1.audioMimeType,
                              !.log = Append(@, message)]
        pA      == [p EXCEPT !.responseQueue = got.rest,
                             !.audioParts = st1.audioParts]
    IN  IF IsTurnComplete(message)
        THEN FinishTurn([pA EXCEPT !.turns = RemoveAt(@, i)], t1)
        ELSE [pA EXCEPT !.turns[i] = t1]

\* Writes a program-state record back to the variables.
Becomes(p) ==
    /\ responseQueue'    = p.responseQueue
    /\ audioParts'       = p.audioParts
    /\ isProcessingTurn' = p.isProcessingTurn
    /\ turns'            = p.turns
    /\ currentModelTurn' = p.currentModelTurn
    /\ ui'               = p.ui
    /\ history'          = p.history

(***************************************************************************)
(* Event handlers of the voice client.                                     *)
(***************************************************************************)
\* callbacks.onopen
OnOpen ==
    /\ sessionState = "connecting"
    /\ sessionState' = "open"
    /\ ui' = setUiState(FALSE, FALSE)
    /\ UNCHANGED <<responseQueue, audioParts, isProcessingTurn, turns,
                   currentModelTurn, enqueued, delivered, history>>
    /\ UNCHANGED wavVars
    /\ UNCHANGED recVars

\* main(): ai.live.connect rejects
ConnectFails ==
    /\ sessionState = "connecting"
    /\ sessionState' = "failed"
    /\ ui' = setUiState(TRUE, FALSE)
    /\ UNCHANGED <<responseQueue, audioParts, isProcessingTurn, turns,
                   currentModelTurn, enqueued, delivered, history>>
    /\ UNCHANGED wavVars
    /\ UNCHANGED recVars

\* callbacks.onmessage
OnMessage(message) ==
    /\ sessionState = "open"
    /\ Len(enqueued) < MaxMsgs
    /\ enqueued' = Append(enqueued, message)
    /\ Becomes(processQueueContinuously(
                   [Program EXCEPT !.responseQueue = QueuePush(@, message)]))
    /\ UNCHANGED <<sessionState, delivered>>
    /\ UNCHANGED wavVars
    /\ UNCHANGED recVars

\* callbacks.onerror
OnError ==
    /\ sessionState = "open"
    /\ sessionState' = "errored"
    /\ ui' = setUiState(TRUE, FALSE)
    /\ UNCHANGED <<responseQueue, audioParts, isProcessingTurn, turns,
                   currentModelTurn, enqueued, delivered, history>>
    /\ UNCHANGED wavVars
    /\ UNCHANGED recVars

\* callbacks.onclose
OnClose ==
    /\ sessionState \in {"open", "errored"}
    /\ sessionState' = "closed"
    /\ ui' = setUiState(TRUE, FALSE)
    /\ UNCHANGED <<responseQueue, audioParts, isProcessingTurn, turns,
                   currentModelTurn, enqueued, delivered, history>>
    /\ UNCHANGED wavVars
    /\ UNCHANGED recVars

\* The setInterval callback of waitMessage of the i-th suspended invocation.
\* With an empty queue shift() returns undefined and the tick changes nothing.
PollTick(i) ==
    /\ i \in 1..Len(turns)
    /\ Len(responseQueue) > 0
    /\ delivered' = Append(delivered, QueueShift(responseQueue).message)
    /\ Becomes(TickTurn(Program, i))
    /\ UNCHANGED <<sessionState, enqueued>>
    /\ UNCHANGED wavVars
    /\ UNCHANGED recVars

Init == IdleClient /\ NoWavRun /\ NoRecording

Next ==
    \/ OnOpen
    \/ ConnectFails
    \/ \E message \in Messages : OnMessage(message)
    \/ OnError
    \/ OnClose
    \/ \E i \in 1..Len(turns) : PollTick(i)

Spec == Init /\ [][Next]_vars

\* A tick of the poll timer of a suspended waitMessage that finds a message,
\* seen on the messages handed over: shift() takes the head of the queue.
PollTimerFires ==
    /\ turns # <<>>
    /\ responseQueue # <<>>
    /\ delivered' = Append(delivered, QueueShift(responseQueue).message)

\* The voice client with its poll timer firing fairly: setInterval keeps
\* calling the callback of a suspended waitMessage every 100 ms, so a tick
\* that can dequeue a message is not postponed forever.
SpecFair == Init /\ [][Next]_vars /\ WF_delivered(PollTimerFires)

(***************************************************************************)
(* Recording (voice client).  A click on the enabled mic button runs       *)
(* toggleRecording.  getUserMedia settles in a later task; a MediaRecorder *)
(* delivers its start event, its dataavailable events and, after stop(),   *)
(* a last dataavailable event followed by its stop event, each in a task   *)
(* of its own and in that order.  The dataavailable handler awaits         *)
(* arrayBuffer() and sends the chunk in the continuation.                  *)
(***************************************************************************)
\* Most clicks on the mic button in one run.
MaxClicks == 3

\* Most timeslice chunks the recorders deliver in one run.
MaxCaptures == 2

\* The server messages of the recording runs.
RecMessages == { Msg(<<TextPart("Hel")>>, FALSE), Msg(<<>>, TRUE) }

\* `session` has been assigned: ai.live.connect has resolved.
SessionAssigned == sessionState \in {"open", "errored", "closed"}

\* new MediaRecorder(audioStream) followed by mediaRecorder.start(200): the
\* recorder is recording at once and its start event is queued.
NewRecorder ==
    [state |-> "recording", startQueued |-> TRUE, stopQueued |-> FALSE,
     tracksLive |-> TRUE]

\* stopRecording() on the recording state [mediaRecorder, audioStream,
\* recorders]: stop() makes the recorder inactive and queues its last
\* dataavailable and its stop event.
stopRecording(rs) ==
    LET r1 == IF rs.mediaRecorder # 0
                  /\ rs.recorders[rs.mediaRecorder].state # "inactive"
              THEN [rs.recorders EXCEPT ![rs.mediaRecorder].state = "inactive",
                                        ![rs.mediaRecorder].stopQueued = TRUE]
              ELSE rs.recorders
        r2 == IF rs.audioStream # 0
              THEN [r1 EXCEPT ![rs.audioStream].tracksLive = FALSE]
              ELSE r1
    IN  [mediaRecorder |-> 0, audioStream |-> 0, recorders |-> r2]

\* A recorder is gathering audio.
Capturing(recs) == { r \in 1..Len(recs) : recs[r].state = "recording" }

\* micButton click: toggleRecording().  startRecording returns at once
\* without a session and otherwise suspends in getUserMedia.
ClickMic ==
    /\ ~ui.micDisabled
    /\ clicks < MaxClicks
    /\ clicks' = clicks + 1
    /\ IF isRecording
       THEN LET rs == stopRecording([mediaRecorder |-> mediaRecorder,
                                     audioStream |-> audioStream,
                                     recorders |-> recorders])
            IN  /\ mediaRecorder' = rs.mediaRecorder
                /\ audioStream' = rs.audioStream
                /\ recorders' = rs.recorders
                /\ UNCHANGED micRequests
       ELSE /\ micRequests' = IF SessionAssigned THEN micRequests + 1 ELSE micRequests
            /\ UNCHANGED <<mediaRecorder, audioStream, recorders>>
    /\ UNCHANGED <<isRecording, reads, captured, sent, denial>>
    /\ UNCHANGED clientVars
    /\ UNCHANGED wavVars

\* startRecording after getUserMedia resolved: lines 238-264.
MicGranted ==
    /\ micRequests > 0
    /\ micRequests' = micRequests - 1
    /\ recorders' = Append(recorders, NewRecorder)
    /\ audioStream' = Len(recorders) + 1
    /\ mediaRecorder' = Len(recorders) + 1
    /\ UNCHANGED <<isRecording, reads, captured, sent, denial, clicks>>
    /\ UNCHANGED clientVars
    /\ UNCHANGED wavVars

\* startRecording after getUserMedia rejected: the catch block, lines
\* 265-270.  The status text it writes is replaced by setUiState(false)
\* before the handler returns.
MicDenied ==
    /\ micRequests > 0
    /\ micRequests' = micRequests - 1
    /\ isRecording' = FALSE
    /\ ui' = setUiState(FALSE, FALSE)
    /\ denial' = [happened    |-> TRUE,
                  status      |-> ui'.status,
                  isRecording |-> isRecording',
                  capturing   |-> mediaRecorder # 0 \/ Capturing(recorders) # {},
                  frameKept   |-> TRUE]
    /\ UNCHANGED <<mediaRecorder, audioStream, recorders, reads, captured, sent, clicks>>
    /\ UNCHANGED <<sessionState, responseQueue, audioParts, isProcessingTurn, turns,
                   currentModelTurn, enqueued, delivered, history>>
    /\ UNCHANGED wavVars

\* mediaRecorder.onstart of recorder r
RecorderStart(r) ==
    /\ r \in 1..Len(recorders)
    /\ recorders[r].startQueued
    /\ recorders' = [recorders EXCEPT ![r].startQueued = FALSE]
    /\ isRecording' = TRUE
    /\ ui' = setUiState(FALSE, TRUE)
    /\ UNCHANGED <<mediaRecorder, audioStream, micRequests, reads, captured, sent,
                   denial, clicks>>
    /\ UNCHANGED <<sessionState, responseQueue, audioParts, isProcessingTurn, turns,
                   currentModelTurn, enqueued, delivered, history>>
    /\ UNCHANGED wavVars

\* The chunks whose arrayBuffer() is awaited after a dataavailable event of
\* recorder r: the handler does nothing for an empty chunk or without a
\* session.
AfterDataAvailable(pending, chunk, empty) ==
    IF ~empty /\ SessionAssigned THEN Append(pending, chunk) ELSE pending

\* mediaRecorder.ondataavailable of recorder r, up to its await: a timeslice
\* chunk of a recorder that is recording.
Capture(r, empty) ==
    /\ r \in 1..Len(recorders)
    /\ recorders[r].state = "recording"
    /\ ~recorders[r].startQueued
    /\ Len(captured) < MaxCaptures
    /\ captured' = Append(captured, [recorder |-> r, empty |-> empty])
    /\ reads' = AfterDataAvailable(reads, Len(captured) + 1, empty)
    /\ UNCHANGED <<isRecording, mediaRecorder, audioStream, micRequests, recorders,
                   sent, denial, clicks>>
    /\ UNCHANGED clientVars
    /\ UNCHANGED wavVars

\* The task queued by stop() on recorder r: the last dataavailable event,
\* then mediaRecorder.onstop.
RecorderStop(r, empty) ==
    /\ r \in 1..Len(recorders)
    /\ recorders[r].stopQueued
    /\ ~recorders[r].startQueued
    /\ recorders' = [recorders EXCEPT ![r].stopQueued = FALSE]
    /\ captured' = Append(captured, [recorder |-> r, empty |-> empty])
    /\ reads' = AfterDataAvailable(reads, Len(captured) + 1, empty)
    /\ isRecording' = FALSE
    /\ ui' = setUiState(TRUE, FALSE)
    /\ UNCHANGED <<mediaRecorder, audioStream, micRequests, sent, denial, clicks>>
    /\ UNCHANGED <<sessionState, responseQueue, audioParts, isProcessingTurn, turns,
                   currentModelTurn, enqueued, delivered, history>>
    /\ UNCHANGED wavVars

\* mediaRecorder.ondataavailable after its await, for the k-th pending
\* chunk: sendClientContent with mediaRecorder.mimeType, which throws a
\* TypeError when the global mediaRecorder is null.
ReadDone(k) ==
    /\ k \in 1..Len(reads)
    /\ reads' = RemoveAt(reads, k)
    /\ sent' = IF mediaRecorder = 0 THEN sent
               ELSE Append(sent, [chunk |-> reads[k], recorder |-> mediaRecorder])
    /\ UNCHANGED <<isRecording, mediaRecorder, audioStream, micRequests, recorders,
                   captured, denial, clicks>>
    /\ UNCHANGED clientVars
    /\ UNCHANGED wavVars

NextRec ==
    \/ OnOpen
    \/ ConnectFails
    \/ \E message \in RecMessages : OnMessage(message)
    \/ OnError
    \/ OnClose
    \/ \E i \in 1..Len(turns) : PollTick(i)
    \/ ClickMic
    \/ MicGranted
    \/ MicDenied
    \/ \E r \in 1..Len(recorders) : RecorderStart(r)
    \/ \E r \in 1..Len(recorders), empty \in BOOLEAN : Capture(r, empty)
    \/ \E r \in 1..Len(recorders), empty \in BOOLEAN : RecorderStop(r, empty)
    \/ \E k \in 1..Len(reads) : ReadDone(k)

SpecRec == Init /\ [][NextRec]_vars

(***************************************************************************)
(* The text client (part_000).  It has the same queue, audio buffer and    *)
(* handleTurn loop as the voice client, but no isProcessingTurn flag:      *)
(* onmessage only pushes, and handleTurn is started by the submit handler  *)
(* of the chat form alone.  The form has one text input and one submit     *)
(* button; setUiState disables both, and a form whose controls are         *)
(* disabled cannot be submitted by the user.                               *)
(***************************************************************************)
\* Most submits of the chat form in one run.
MaxSubmits == 3

\* The server messages of the text client's runs.
TextMessages ==
    { Msg(<<TextPart("Hel")>>, FALSE),
      Msg(<<TextPart("lo")>>, TRUE),
      Msg(<<>>, TRUE),
      Msg(<<AudioPart("QUI=", "audio/L16;rate=16000")>>, FALSE),
      Msg(<<TextPart("a"), AudioPart("AQID", "audio/L8;rate=8000"), TextPart("b")>>, FALSE),
      Msg(<<AudioPart("!", "audio/L16")>>, TRUE) }

\* Mutant of setUiStateText: the controls are left enabled.
setUiStateTextEnabled(isLoading) ==
    [inputDisabled |-> FALSE,
     sendDisabled  |-> FALSE,
     status        |-> IF isLoading THEN "Assistant is responding..."
                       ELSE "Ready. Type your message."]

\* setUiState(isLoading) of the text client
setUiStateText(isLoading) ==
    [inputDisabled |-> isLoading,
     sendDisabled  |-> isLoading,
     status        |-> IF isLoading THEN "Assistant is responding..."
                       ELSE "Ready. Type your message."]

IdleTextClient ==
    /\ sessionState = "connecting"
    /\ responseQueue = <<>>
    /\ audioParts = <<>>
    /\ isProcessingTurn = FALSE
    /\ turns = <<>>
    /\ currentModelTurn = 0
    /\ ui = [inputDisabled |-> FALSE, sendDisabled |-> FALSE, status |-> ""]
    /\ enqueued = <<>>
    /\ delivered = <<>>
    /\ history = <<>>

\* handleTurn of the text client up to its first await; queued is the
\* number of messages already waiting in responseQueue at that moment.
NewTurnText(id, buffered, queued) ==
    [id            |-> id,
     turnText      |-> "",
     audioMimeType |-> "",
     updates       |-> <<>>,
     log           |-> <<>>,
     audioAtStart  |-> buffered,
     queuedAtStart |-> queued]

\* handleTurn(), lines 180-188: disable the form, show the loading bubble
\* and suspend in the first waitMessage.
StartTurnText(p) ==
    LET id == Len(p.history) + Len(p.turns) + 1
    IN  [p EXCEPT !.ui               = setUiStateText(TRUE),
                  !.currentModelTurn = id,
                  !.turns            = Append(@, NewTurnText(id, p.audioParts,
                                                             Len(p.responseQueue)))]

\* handleTurn after its loop, lines 209-218, for the invocation t that has
\* just been removed from p.turns.
FinishTurnText(p, t) ==
    LET ready == AudioReady(p.audioParts, t.audioMimeType)
        wav   == IF ready THEN convertToWav(p.audioParts, t.audioMimeType)
                 ELSE [ok |-> TRUE, bytes |-> <<>>]
        rec   == [id |-> t.id, log |-> t.log, turnText |-> t.turnText,
                  updates |-> t.updates,
                  audioMimeType |-> t.audioMimeType,
                  audioAtStart |-> t.audioAtStart,
                  queuedAtStart |-> t.queuedAtStart,
                  audioIn |-> p.audioParts,
                  outcome |-> IF ~ready THEN "text"
                              ELSE IF wav.ok THEN "played" ELSE "threw",
                  wav |-> wav.bytes]
    IN  IF ready /\ ~wav.ok
        THEN \* atob threw: handleTurn rejects and setUiState(false) is not
             \* reached.
             [p EXCEPT !.history = Append(@, rec)]
        ELSE [p EXCEPT !.history    = Append(@, rec),
                       !.audioParts = IF ready THEN <<>> ELSE @,
                       !.ui         = setUiStateText(FALSE)]

\* One tick of the poll timer of the i-th suspended invocation that finds a
\* message.
TickTurnText(p, i) ==
    LET got     == QueueShift(p.responseQueue)
        message == got.message
        t0      == p.turns[i]
        st0     == [turnText |-> t0.turnText, updates |-> t0.updates,
                    audioMimeType |-> t0.audioMimeType, audioParts |-> p.audioParts]
        st1     == ProcessParts(st0, message.parts, 1)
        t1      == [t0 EXCEPT !.turnText = st1.turnText,
                              !.updates = st1.updates,
                              !.audioMimeType = st1.audioMimeType,
                              !.log = Append(@, message)]
        pA      == [p EXCEPT !.responseQueue = got.rest,
                             !.audioParts = st1.audioParts]
    IN  IF IsTurnComplete(message)
        THEN FinishTurnText([pA EXCEPT !.turns = RemoveAt(@, i)], t1)
        ELSE [pA EXCEPT !.turns[i] = t1]

\* callbacks.onopen
TextOnOpen ==
    /\ sessionState = "connecting"
    /\ sessionState' = "open"
    /\ ui' = setUiStateText(FALSE)
    /\ UNCHANGED <<responseQueue, audioParts, isProcessingTurn, turns,
                   currentModelTurn, enqueued, delivered, history>>
    /\ UNCHANGED wavVars
    /\ UNCHANGED recVars

\* main(): ai.live.connect rejects
TextConnectFails ==
    /\ sessionState = "connecting"
    /\ sessionState' = "failed"
    /\ ui' = setUiStateText(TRUE)
    /\ UNCHANGED <<responseQueue, audioParts, isProcessingTurn, turns,
                   currentModelTurn, enqueued, delivered, history>>
    /\ UNCHANGED wavVars
    /\ UNCHANGED recVars

\* callbacks.onmessage: the message is pushed and nothing else happens.
TextOnMessage(message) ==
    /\ sessionState = "open"
    /\ Len(enqueued) < MaxMsgs
    /\ enqueued' = Append(enqueued, message)
    /\ responseQueue' = QueuePush(responseQueue, message)
    /\ UNCHANGED <<sessionState, audioParts, isProcessingTurn, turns,
                   currentModelTurn, ui, delivered, history>>
    /\ UNCHANGED wavVars
    /\ UNCHANGED recVars

\* callbacks.onerror
TextOnError ==
    /\ sessionState = "open"
    /\ sessionState' = "errored"
    /\ ui' = setUiStateText(TRUE)
    /\ UNCHANGED <<responseQueue, audioParts, isProcessingTurn, turns,
                   currentModelTurn, enqueued, delivered, history>>
    /\ UNCHANGED wavVars
    /\ UNCHANGED recVars

\* callbacks.onclose
TextOnClose ==
    /\ sessionState \in {"open", "errored"}
    /\ sessionState' = "closed"
    /\ ui' = setUiStateText(TRUE)
    /\ UNCHANGED <<responseQueue, audioParts, isProcessingTurn, turns,
                   currentModelTurn, enqueued, delivered, history>>
    /\ UNCHANGED wavVars
    /\ UNCHANGED recVars

\* The submit handler of the chat form with a non-empty input.  The user can
\* type and submit only while the input is enabled; session is assigned once
\* connect has resolved and is never cleared.  The handler sends the text
\* and runs handleTurn up to its first await.
Submit ==
    /\ sessionState \in {"open", "errored", "closed"}
    /\ ~ui.inputDisabled
    /\ Len(history) + Len(turns) < MaxSubmits
    /\ Becomes(StartTurnText(Program))
    /\ UNCHANGED <<sessionState, enqueued, delivered>>
    /\ UNCHANGED wavVars
    /\ UNCHANGED recVars

\* The setInterval callback of waitMessage of the i-th suspended invocation.
TextPollTick(i) ==
    /\ i \in 1..Len(turns)
    /\ Len(responseQueue) > 0
    /\ delivered' = Append(delivered, QueueShift(responseQueue).message)
    /\ Becomes(TickTurnText(Program, i))
    /\ UNCHANGED <<sessionState, enqueued>>
    /\ UNCHANGED wavVars
    /\ UNCHANGED recVars

InitText == IdleTextClient /\ NoWavRun /\ NoRecording

NextText ==
    \/ TextOnOpen
    \/ TextConnectFails
    \/ \E message \in TextMessages : TextOnMessage(message)
    \/ TextOnError
    \/ TextOnClose
    \/ Submit
    \/ \E i \in 1..Len(turns) : TextPollTick(i)

SpecText == InitText /\ [][NextText]_vars

(***************************************************************************)
(* Properties of the turn reassembler (checked under Spec).                *)
(***************************************************************************)
\* The text fields of a list of parts, joined in order.
RECURSIVE TextOfParts(_)
TextOfParts(parts) ==
    IF parts = <<>> THEN "" ELSE Head(parts).text \o TextOfParts(Tail(parts))

\* The text of every part of every message of a log, joined in order.
RECURSIVE TextOfLog(_)
TextOfLog(log) ==
    IF log = <<>> THEN "" ELSE TextOfParts(Head(log).parts) \o TextOfLog(Tail(log))

\* The logs of a list of turn records, joined in order.
RECURSIVE ConcatLogs(_)
ConcatLogs(recs) ==
    IF recs = <<>> THEN <<>> ELSE Head(recs).log \o ConcatLogs(Tail(recs))

IsPrefix(a, b) == Len(a) <= Len(b) /\ SubSeq(b, 1, Len(a)) = a

\* C1: when a turn ends, its transcript is the concatenation, in dequeue
\* order, of the text of every text part of every message it dequeued, up to
\* and including the message that carries turnComplete, however the parts
\* are grouped into messages.
C1_TranscriptIsConcatenation ==
    \A k \in 1..Len(history) :
        /\ history[k].log # <<>>
        /\ history[k].log[Len(history[k].log)].turnComplete
        /\ history[k].turnText = TextOfLog(history[k].log)

\* A finished turn that took text from three messages, one of them with two
\* text parts around an audio part.
C1_Witness ==
    \E k \in 1..Len(history) :
        /\ Len(history[k].log) = 3
        /\ history[k].turnText = "Helablo"

\* C2: a turn leaves its loop if and only if it has dequeued a message with
\* turnComplete set, with or without parts: a turn that is still suspended
\* has dequeued no such message and the reassembler is busy, and a turn that
\* left the loop did so on the first such message.
C2_CompletionIffTurnComplete ==
    /\ \A i \in 1..Len(turns) :
          /\ \A j \in 1..Len(turns[i].log) : ~turns[i].log[j].turnComplete
          /\ isProcessingTurn
    /\ \A k \in 1..Len(history) :
          LET log == history[k].log
          IN  /\ Len(log) > 0
              /\ log[Len(log)].turnComplete
              /\ \A j \in 1..(Len(log) - 1) : ~log[j].turnComplete

\* A turn completed by a message with turnComplete and no parts that follows
\* a message with parts and no turnComplete, and a suspended turn that has
\* dequeued a message without turnComplete.
C2_Witness ==
    /\ \E k \in 1..Len(history) :
          /\ Len(history[k].log) = 2
          /\ history[k].log[1].parts # <<>>
          /\ history[k].log[2].parts = <<>>
    /\ \E i \in 1..Len(turns) : Len(turns[i].log) = 1

\* C3: the messages handed to the consumer are a prefix of the messages
\* enqueued, and the rest is still queued in order: nothing is dropped,
\* duplicated or reordered.
C3_FifoDelivery ==
    /\ IsPrefix(delivered, enqueued)
    /\ delivered \o responseQueue = enqueued

\* Two different messages delivered while a third is still queued.
C3_Witness ==
    /\ Len(delivered) = 2
    /\ delivered[1] # delivered[2]
    /\ Len(responseQueue) = 1
    /\ responseQueue[1] # delivered[2]

\* C4: at most one handleTurn is active; turns run one after the other, so
\* the messages are consumed turn by turn in arrival order, and what was
\* enqueued behind the turnComplete message of the active turn is consumed
\* only by a turn started after the active one has finished.
C4_OneTurnAtATime ==
    /\ Len(turns) <= 1
    /\ \A i \in 1..Len(turns) : isProcessingTurn /\ turns[i].id = Len(history) + 1
    /\ \A k \in 1..Len(history) : history[k].id = k
    /\ ConcatLogs(history) \o ConcatLogs(turns) = delivered

\* A turn is active and has consumed a message; its turnComplete message and
\* a message of the next turn are both waiting in the queue.
C4_Witness ==
    /\ Len(turns) = 1
    /\ turns[1].log # <<>>
    /\ Len(responseQueue) = 2
    /\ responseQueue[1].turnComplete

\* The audio payloads of a list of parts / of a log, in order.
RECURSIVE AudioOfParts(_)
AudioOfParts(parts) ==
    IF parts = <<>> THEN <<>>
    ELSE (IF Head(parts).data # "" THEN <<Head(parts).data>> ELSE <<>>)
         \o AudioOfParts(Tail(parts))

RECURSIVE AudioOfLog(_)
AudioOfLog(log) ==
    IF log = <<>> THEN <<>> ELSE AudioOfParts(Head(log).parts) \o AudioOfLog(Tail(log))

\* C5: nothing leaks between turns: the audio buffer is empty when a turn
\* starts, and the chunks framed at the end of a turn are exactly the chunks
\* dequeued during that turn.
C5_NoLeakBetweenTurns ==
    /\ \A i \in 1..Len(turns) : turns[i].audioAtStart = <<>>
    /\ \A k \in 1..Len(history) :
          /\ history[k].audioAtStart = <<>>
          /\ history[k].outcome = "played" =>
                history[k].audioIn = AudioOfLog(history[k].log)

(***************************************************************************)
(* Properties of the PCM framer (checked under SpecWav).                   *)
(***************************************************************************)
\* The bytes each payload of Chunks stands for.
ExpectedBytes(chunk) ==
    CASE chunk = "QUI="     -> <<65, 66>>
      [] chunk = "QQ=="     -> <<65>>
      [] chunk = "AQID"     -> <<1, 2, 3>>
      [] chunk = "BAUGBwg=" -> <<4, 5, 6, 7, 8>>
      [] chunk = "/w"       -> <<255>>

RECURSIVE ExpectedPayload(_)
ExpectedPayload(chunks) ==
    IF chunks = <<>> THEN <<>>
    ELSE ExpectedBytes(Head(chunks)) \o ExpectedPayload(Tail(chunks))

RECURSIVE SumOfLengths(_)
SumOfLengths(chunks) ==
    IF chunks = <<>> THEN 0
    ELSE Len(ExpectedBytes(Head(chunks))) + SumOfLengths(Tail(chunks))

\* C6: for a non-empty list of chunks and any mimeType, convertToWav returns
\* the 44-byte header followed by the decoded bytes of the chunks in the
\* order they were appended and nothing else, 44 + sum of the chunk lengths
\* bytes in all.
C6_WavIsHeaderThenChunks ==
    (fn = "convertToWav" /\ wavResult.done /\ rawData # <<>>
        /\ \A i \in 1..Len(rawData) : rawData[i] \in Chunks) =>
        LET out == wavResult.value
        IN  /\ out.ok
            /\ Len(out.bytes) = 44 + SumOfLengths(rawData)
            /\ SubSeq(out.bytes, 1, 44)
                  = createWavHeader(SumOfLengths(rawData), parseMimeType(mimeType))
            /\ SubSeq(out.bytes, 45, Len(out.bytes)) = ExpectedPayload(rawData)

\* Scenario 3 of the specification: chunks of 3 and 5 bytes give 52 bytes.
C6_Witness ==
    /\ fn = "convertToWav" /\ wavResult.done
    /\ rawData = <<"AQID", "BAUGBwg=">>
    /\ mimeType = "audio/L8;rate=8000"
    /\ Len(wavResult.value.bytes) = 52

\* The unsigned little-endian value of 2 / 4 bytes at a 0-based offset.
ReadUint16LE(bytes, offset) == bytes[offset + 1] + 256 * bytes[offset + 2]

ReadUint32LE(bytes, offset) ==
    bytes[offset + 1] + 256 * bytes[offset + 2] + 65536 * bytes[offset + 3]
    + 16777216 * bytes[offset + 4]

\* C7: for every dataLength and every descriptor with bitsPerSample in
\* {8,16,24,32}, createWavHeader returns 44 bytes: "RIFF", 36 + dataLength,
\* "WAVE", "fmt ", 16, 1, channels, sampleRate, byteRate, blockAlign,
\* bitsPerSample, "data", dataLength at offsets 0, 4, 8, 12, 16, 20, 22, 24,
\* 28, 32, 34, 36, 40, multi-byte fields little-endian.
C7_HeaderLayout ==
    (fn = "createWavHeader" /\ wavResult.done
        /\ hdrOptions.bitsPerSample.n \in {8, 16, 24, 32}) =>
        LET h    == wavResult.value
            c    == hdrOptions.numChannels.n
            r    == hdrOptions.sampleRate.n
            b    == hdrOptions.bitsPerSample.n
        IN  /\ Len(h) = 44
            /\ \A i \in 1..44 : h[i] \in 0..255
            /\ SubSeq(h, 1, 4) = <<82, 73, 70, 70>>
            /\ ReadUint32LE(h, 4) = 36 + dataLength
            /\ SubSeq(h, 9, 12) = <<87, 65, 86, 69>>
            /\ SubSeq(h, 13, 16) = <<102, 109, 116, 32>>
            /\ ReadUint32LE(h, 16) = 16
            /\ ReadUint16LE(h, 20) = 1
            /\ ReadUint16LE(h, 22) = c
            /\ ReadUint32LE(h, 24) = r
            /\ (r * c * b) % 8 = 0
            /\ ReadUint32LE(h, 28) = (r * c * b) \div 8
            /\ (c * b) % 8 = 0
            /\ ReadUint16LE(h, 32) = (c * b) \div 8
            /\ ReadUint16LE(h, 34) = b
            /\ SubSeq(h, 37, 40) = <<100, 97, 116, 97>>
            /\ ReadUint32LE(h, 40) = dataLength

\* A stereo 24-bit header for 70000 data bytes: byteRate 264600, blockAlign 6.
C7_Witness ==
    /\ fn = "createWavHeader" /\ wavResult.done
    /\ dataLength = 70000
    /\ hdrOptions = [numChannels |-> Num(2), bitsPerSample |-> Num(24),
                     sampleRate |-> Num(44100)]
    /\ ReadUint32LE(wavResult.value, 28) = 264600
    /\ ReadUint16LE(wavResult.value, 32) = 6

\* The subtype of a mimeType: the text between the first "/" and the first
\* ";" (or the end), "" when there is no "/" before the first ";".
SubtypeOf(m) ==
    LET semi  == IndexOfFrom(m, ";", 1)
        stop  == IF semi = 0 THEN Len(m) + 1 ELSE semi
        slash == IndexOfFrom(SubSeq(m, 1, stop - 1), "/", 1)
    IN  IF slash = 0 THEN "" ELSE SubSeq(m, slash + 1, stop - 1)

AllDigits(s) == Len(s) > 0 /\ \A i \in 1..Len(s) : IsDigit(CharAt(s, i))

\* The parameters of a mimeType: the pieces after the first ";", without
\* the surrounding blanks.
ParamsOf(m) ==
    LET pieces == Split(m, ";")
    IN  [i \in 1..(Len(pieces) - 1) |-> Trim(pieces[i + 1])]

\* The name of a parameter: the text before its first "=".
ParamName(param) == Trim(Head(Split(param, "=")))

\* The value of a parameter: the text between its first and second "=".
ParamValue(param) ==
    LET kv == Split(param, "=") IN IF Len(kv) >= 2 THEN Trim(kv[2]) ELSE ""

\* The positions of the rate parameters of a mimeType.
RateParams(m) == { i \in 1..Len(ParamsOf(m)) : ParamName(ParamsOf(m)[i]) = "rate" }

\* A mimeType without its parameters other than rate.
RECURSIVE JoinRateParams(_)
JoinRateParams(params) ==
    IF params = <<>> THEN ""
    ELSE (IF ParamName(Head(params)) = "rate" THEN ";" \o Head(params) ELSE "")
         \o JoinRateParams(Tail(params))

WithoutOtherParams(m) == Head(Split(m, ";")) \o JoinRateParams(ParamsOf(m))

\* C8: parseMimeType yields channels=1, bitsPerSample=16, sampleRate=24000
\* by default; a subtype L<digits> sets bitsPerSample to that number, a
\* rate=<digits> parameter sets sampleRate to that number, a missing rate
\* parameter leaves sampleRate at 24000, and any other parameter leaves the
\* result unchanged.
C8_ParseMimeType ==
    (fn = "parseMimeType" /\ wavResult.done) =>
        LET o       == wavResult.value
            subtype == SubtypeOf(mimeType)
            params  == ParamsOf(mimeType)
            rates   == RateParams(mimeType)
        IN  /\ o.numChannels = Num(1)
            /\ ~StartsWith(subtype, "L") => o.bitsPerSample = Num(16)
            /\ (StartsWith(subtype, "L") /\ AllDigits(Tail(subtype))) =>
                  o.bitsPerSample = Num(DigitsValue(Tail(subtype), 0))
            /\ rates = {} => o.sampleRate = Num(24000)
            /\ \A i \in rates :
                  (AllDigits(ParamValue(params[i])) /\ \A j \in rates : j <= i) =>
                      o.sampleRate = Num(DigitsValue(ParamValue(params[i]), 0))
            /\ o = parseMimeType(WithoutOtherParams(mimeType))

\* An L24 subtype with a rate and an unrelated parameter.
C8_Witness ==
    /\ fn = "parseMimeType" /\ wavResult.done
    /\ mimeType = "audio/L24;rate=48000;channels=2"
    /\ wavResult.value = [numChannels |-> Num(1), bitsPerSample |-> Num(24),
                          sampleRate |-> Num(48000)]

\* A parameter value that does not start a number: no digit after the
\* optional sign.
NotANumber(value) ==
    LET body == IF Len(value) > 0 /\ CharAt(value, 1) \in {"+", "-"}
                THEN Tail(value) ELSE value
    IN  Len(body) = 0 \/ ~IsDigit(CharAt(body, 1))

\* C9: a malformed numeric token leaves the default in place: with no number
\* after the "L" of the subtype bitsPerSample stays 16, and with a rate value
\* that is not a number sampleRate stays 24000.
C9_MalformedKeepsDefault ==
    (fn = "parseMimeType" /\ wavResult.done) =>
        LET o       == wavResult.value
            subtype == SubtypeOf(mimeType)
            params  == ParamsOf(mimeType)
        IN  /\ (StartsWith(subtype, "L") /\ NotANumber(Tail(subtype))) =>
                  o.bitsPerSample = Num(16)
            /\ (RateParams(mimeType) # {}
                  /\ \A i \in RateParams(mimeType) : NotANumber(ParamValue(params[i]))) =>
                  o.sampleRate = Num(24000)

\* C10: the descriptor returned by parseMimeType has integer channels >= 1,
\* integer sampleRate > 0 and integer bitsPerSample > 0.
IsInteger(v) == ~v.nan /\ v.d = 1

C10_DescriptorWellFormed ==
    (fn = "parseMimeType" /\ wavResult.done) =>
        LET o == wavResult.value
        IN  /\ IsInteger(o.numChannels) /\ o.numChannels.n >= 1
            /\ IsInteger(o.sampleRate) /\ o.sampleRate.n > 0
            /\ IsInteger(o.bitsPerSample) /\ o.bitsPerSample.n > 0

\* The 2 bytes at a 0-based offset hold the number v: v is an integer that
\* fits an unsigned 16-bit field, stored low byte first.
HoldsUint16LE(bytes, offset, v) ==
    /\ IsInteger(v)
    /\ v.n >= 0 /\ v.n < 65536
    /\ bytes[offset + 1] = v.n % 256
    /\ bytes[offset + 2] = v.n \div 256

\* The 4 bytes at a 0-based offset hold the number v, low byte first.
HoldsUint32LE(bytes, offset, v) ==
    /\ IsInteger(v)
    /\ v.n >= 0
    /\ \A k \in 0..3 : bytes[offset + k + 1] = (v.n \div (256 ^ k)) % 256

\* C11: round trip: for every chunk list and mimeType for which convertToWav
\* returns, the fields at offsets 22, 24 and 34 of the returned bytes are the
\* channel count, sample rate and bits per sample parseMimeType derives from
\* the mimeType, and the field at offset 40 is the total decoded data length.
C11_RoundTrip ==
    (fn = "convertToWav" /\ wavResult.done /\ wavResult.value.ok) =>
        LET bytes == wavResult.value.bytes
            o     == parseMimeType(mimeType)
        IN  /\ HoldsUint16LE(bytes, 22, o.numChannels)
            /\ HoldsUint32LE(bytes, 24, o.sampleRate)
            /\ HoldsUint16LE(bytes, 34, o.bitsPerSample)
            /\ HoldsUint32LE(bytes, 40, Num(SumOfLengths(rawData)))

(***************************************************************************)
(* Properties of the audio side of a turn (checked under Spec).            *)
(***************************************************************************)
\* The parts of every message of a log, in order.
RECURSIVE PartsOfLog(_)
PartsOfLog(log) ==
    IF log = <<>> THEN <<>> ELSE Head(log).parts \o PartsOfLog(Tail(log))

\* The audio parts of a list of parts: the parts that carry data.
AudioPartsOf(parts) == SelectSeq(parts, LAMBDA part : part.data # "")

\* The mimeType of the first audio part of a list of parts that has one.
FirstNonEmptyMime(parts) ==
    LET withMime == SelectSeq(AudioPartsOf(parts), LAMBDA part : part.mimeType # "")
    IN  IF withMime = <<>> THEN "" ELSE Head(withMime).mimeType

\* C12 as stated: the format string of a turn is the mimeType of the first
\* audio part the turn dequeued, whatever the later audio parts carry.
C12_FormatFromFirstAudioPart ==
    \A k \in 1..Len(history) :
        LET audio == AudioPartsOf(PartsOfLog(history[k].log))
        IN  audio # <<>> => history[k].audioMimeType = Head(audio).mimeType

\* C12, amended: the format string of a turn is the mimeType of the first
\* audio part of the turn that carries a non-empty mimeType; once it is set,
\* the mimeType of a later audio part never changes it, and it is the string
\* passed to convertToWav at turn end.
C12_FormatFromFirstNonEmptyMime ==
    /\ \A i \in 1..Len(turns) :
          turns[i].audioMimeType = FirstNonEmptyMime(PartsOfLog(turns[i].log))
    /\ \A k \in 1..Len(history) :
          /\ history[k].audioMimeType = FirstNonEmptyMime(PartsOfLog(history[k].log))
          /\ history[k].outcome = "played" =>
                history[k].wav
                    = convertToWav(history[k].audioIn,
                                   FirstNonEmptyMime(PartsOfLog(history[k].log))).bytes

\* A turn that dequeued an L16 audio part and then an L8 audio part and was
\* framed as L16 at 16000 Hz.
C12_Witness ==
    \E k \in 1..Len(history) :
        LET audio == AudioPartsOf(PartsOfLog(history[k].log))
        IN  /\ Len(audio) = 2
            /\ audio[1].mimeType = "audio/L16;rate=16000"
            /\ audio[2].mimeType = "audio/L8;rate=8000"
            /\ history[k].outcome = "played"
            /\ history[k].audioMimeType = "audio/L16;rate=16000"
            /\ ReadUint32LE(history[k].wav, 24) = 16000

\* The transport has reported an error or has closed.
TransportFailed == sessionState \in {"errored", "closed"}

\* C13: when onerror or onclose fires while a turn is in flight the turn is
\* abandoned: once the transport has failed no invocation of handleTurn is
\* left suspended, so none can dequeue a message or hand a WAV to the player
\* afterwards, and the reassembler is idle.
C13_TurnAbandonedOnFailure ==
    TransportFailed => turns = <<>>

\* C14: a transport failure is terminal for the UI: once onerror or onclose
\* has fired the microphone button stays disabled and the status is never
\* set back to the ready text.
C14_FailureIsTerminalForUi ==
    TransportFailed => (ui.micDisabled /\ ui.status # "Ready. Tap mic to talk.")

\* C15: an audio part without data is skipped: the buffer a turn frames is
\* what was buffered at its start followed by the payloads of the parts that
\* carry data, the format comes from such parts only, a turn throws only on
\* a payload that cannot be decoded, and the text of the other parts and the
\* turnComplete flag of the message are processed as usual.
C15_AudioPartWithoutDataSkipped ==
    /\ \A i \in 1..Len(turns) :
          /\ audioParts = turns[i].audioAtStart \o AudioOfLog(turns[i].log)
          /\ turns[i].audioMimeType = FirstNonEmptyMime(PartsOfLog(turns[i].log))
          /\ turns[i].turnText = TextOfLog(turns[i].log)
    /\ \A k \in 1..Len(history) :
          LET h == history[k]
          IN  /\ h.audioIn = h.audioAtStart \o AudioOfLog(h.log)
              /\ \A j \in 1..Len(h.audioIn) : h.audioIn[j] # ""
              /\ h.audioMimeType = FirstNonEmptyMime(PartsOfLog(h.log))
              /\ h.outcome = "threw" =>
                    \E j \in 1..Len(h.audioIn) : ~atob(h.audioIn[j]).ok
              /\ h.turnText = TextOfLog(h.log)
              /\ h.log[Len(h.log)].turnComplete

\* A turn that dequeued an audio part without data and with a mimeType, then
\* an audio part with data and another mimeType, and was ended by a message
\* whose first part is an audio part without data: the format is the second
\* part's, one chunk was framed and the text behind the skipped part is in
\* the transcript.
C15_Witness ==
    \E k \in 1..Len(history) :
        LET h == history[k]
        IN  /\ Len(h.log) = 3
            /\ h.log[1] = Msg(<<AudioPart("", "audio/L16")>>, FALSE)
            /\ h.log[2] = Msg(<<AudioPart("QUI=", "audio/L16;rate=16000")>>, FALSE)
            /\ h.log[3] = Msg(<<AudioPart("", "audio/L16"), TextPart("x")>>, TRUE)
            /\ h.audioIn = <<"QUI=">>
            /\ h.audioMimeType = "audio/L16;rate=16000"
            /\ h.outcome = "played"
            /\ h.turnText = "x"

\* C16: audio is handed to the sink at most once per turn and only after the
\* turnComplete message was dequeued: a finished turn produced one WAV
\* exactly when its buffer was non-empty and its format set, and a turn that
\* dequeued no audio part produced no audio and ended normally with its text.
C16_OneWavPerTurn ==
    \A k \in 1..Len(history) :
        LET h == history[k]
        IN  /\ h.log[Len(h.log)].turnComplete
            /\ (h.outcome = "played") <=> (h.audioIn # <<>> /\ h.audioMimeType # "")
            /\ h.outcome = "played" =>
                  h.wav = convertToWav(h.audioIn, h.audioMimeType).bytes
            /\ h.outcome # "played" => h.wav = <<>>
            /\ AudioPartsOf(PartsOfLog(h.log)) = <<>> =>
                  (h.outcome = "text" /\ h.turnText = TextOfLog(h.log))

\* C17: in the voice client, between event handlers, an idle reassembler
\* means an empty queue: a message enqueued while idle starts a turn at
\* once, and so does the end of a turn that leaves messages queued.
C17_IdleImpliesQueueEmpty ==
    ~isProcessingTurn => responseQueue = <<>>

\* A turn has just ended on its turnComplete message with a message still
\* queued, and a fresh turn is already waiting for it.
C17_Witness ==
    /\ Len(history) >= 1
    /\ delivered # <<>> /\ delivered[Len(delivered)].turnComplete
    /\ Len(responseQueue) >= 1
    /\ Len(turns) = 1 /\ turns[1].log = <<>>
    /\ isProcessingTurn

(***************************************************************************)
(* Properties of the text client (checked under SpecText).                 *)
(***************************************************************************)
\* C18: in the text client a message enqueued while the reassembler is idle
\* starts a fresh turn: no message stays queued while no turn is active, and
\* no turn finds a message already queued when the user's submit starts it.
C18_IdleMessageStartsTurn ==
    /\ turns = <<>> => responseQueue = <<>>
    /\ \A i \in 1..Len(turns) : turns[i].queuedAtStart = 0
    /\ \A k \in 1..Len(history) : history[k].queuedAtStart = 0

\* C19: in the text client only one handleTurn runs at a time: while one is
\* suspended the form is disabled and no second one is started, turns are
\* numbered in the order they finish, each message is consumed by the turn
\* that was active when it was dequeued, turn after turn, and the audio
\* buffer holds the chunks of the active turn behind what it found.
C19_OneTextTurnAtATime ==
    /\ Len(turns) <= 1
    /\ \A i \in 1..Len(turns) :
          /\ turns[i].id = Len(history) + 1
          /\ ui.inputDisabled /\ ui.sendDisabled
          /\ audioParts = turns[i].audioAtStart \o AudioOfLog(turns[i].log)
    /\ \A k \in 1..Len(history) : history[k].id = k
    /\ ConcatLogs(history) \o ConcatLogs(turns) = delivered

\* A second turn, started by a second submit after the first turn finished,
\* has dequeued a message and has another one waiting.
C19_Witness ==
    /\ Len(history) = 1
    /\ Len(turns) = 1
    /\ turns[1].id = 2
    /\ turns[1].log # <<>>
    /\ responseQueue # <<>>

(***************************************************************************)
(* Notifications of the transcript (checked under Spec).                   *)
(***************************************************************************)
\* The parts of a list of parts that carry text.
TextPartsOf(parts) == SelectSeq(parts, LAMBDA part : part.text # "")

\* The notifications one turn must have emitted for its log so far.
NotificationsMatch(updates, log) ==
    LET texts == TextPartsOf(PartsOfLog(log))
    IN  /\ Len(updates) = Len(texts)
        /\ \A j \in 1..Len(updates) :
              /\ updates[j] = TextOfParts(SubSeq(texts, 1, j))
              /\ updates[j] = (IF j = 1 THEN "" ELSE updates[j - 1]) \o texts[j].text

\* C20: every text part a turn dequeues gives exactly one updateModelMessage
\* notification, in arrival order, carrying the full transcript so far: each
\* value is the previous value with that part's text appended, and the last
\* one is the transcript of the turn.
C20_OneNotificationPerTextPart ==
    /\ \A i \in 1..Len(turns) :
          /\ NotificationsMatch(turns[i].updates, turns[i].log)
          /\ turns[i].updates # <<>> =>
                turns[i].updates[Len(turns[i].updates)] = turns[i].turnText
    /\ \A k \in 1..Len(history) :
          /\ NotificationsMatch(history[k].updates, history[k].log)
          /\ history[k].updates # <<>> =>
                history[k].updates[Len(history[k].updates)] = history[k].turnText

\* Four text parts in three messages, two of them around an audio part.
C20_Witness ==
    \E k \in 1..Len(history) :
        history[k].updates = <<"Hel", "Hela", "Helab", "Helablo">>

(***************************************************************************)
(* Progress and termination of turns (voice client).                       *)
(***************************************************************************)
\* C21: with the poll timer firing fairly, every message pushed onto
\* responseQueue by onmessage is eventually dequeued: for every n, once n
\* messages have been enqueued, n messages are eventually delivered.
C21_EveryMessageDequeued ==
    \A n \in 1..MaxMsgs : (Len(enqueued) >= n) ~> (Len(delivered) >= n)

\* C22: every turn that dequeues a turnComplete message terminates and marks
\* the reassembler idle, whatever its content: no finished turn ended by
\* throwing, and the reassembler is busy only while an invocation of
\* handleTurn is suspended.
C22_CompletedTurnMarksIdle ==
    /\ \A k \in 1..Len(history) : history[k].outcome # "threw"
    /\ isProcessingTurn => turns # <<>>

\* C27: at most one waitMessage poll timer is active, one per suspended
\* invocation of handleTurn; none is active while the reassembler is idle;
\* and every message a tick removes from responseQueue goes to the turn
\* whose timer fired, which is cleared by that tick.
C27_OnePollTimer ==
    /\ Len(turns) <= 1
    /\ ~isProcessingTurn => turns = <<>>
    /\ Len(delivered) = Len(ConcatLogs(history)) + Len(ConcatLogs(turns))
    /\ \A i \in 1..Len(turns) :
          \A j \in 1..Len(turns[i].log) :
              turns[i].log[j] = delivered[Len(ConcatLogs(history)) + j]

\* The second turn has dequeued one message, re-armed its timer and found
\* the queue empty.
C27_Witness ==
    /\ Len(history) = 1
    /\ Len(turns) = 1
    /\ Len(turns[1].log) = 1
    /\ responseQueue = <<>>
    /\ isProcessingTurn

(***************************************************************************)
(* Properties of the recording (checked under SpecRec).                    *)
(***************************************************************************)
\* The numbers of the chunks captured with data, sent, and still awaited.
NonEmptyChunks == { c \in 1..Len(captured) : ~captured[c].empty }

SentChunks == { sent[j].chunk : j \in 1..Len(sent) }

AwaitedChunks == { reads[j] : j \in 1..Len(reads) }

\* C23: every non-empty chunk the recorders captured, the last chunk of a
\* stopped recording included, is forwarded by sendClientContent exactly
\* once and in capture order: each such chunk has been sent or is still
\* awaiting its arrayBuffer(), none is both, and the chunks sent so far are
\* in increasing capture order.
C23_EveryChunkForwardedOnce ==
    /\ SentChunks \cup AwaitedChunks = NonEmptyChunks
    /\ SentChunks \cap AwaitedChunks = {}
    /\ \A i, j \in 1..Len(sent) : i < j => sent[i].chunk < sent[j].chunk

\* C24: when getUserMedia is denied, the handler leaves the failure in the
\* status text, isRecording false and no recorder, and does not touch the
\* session, responseQueue, audioParts or isProcessingTurn.
C24_DenialReported ==
    denial.happened =>
        /\ denial.status = "Microphone access is required."
        /\ ~denial.isRecording
        /\ ~denial.capturing
        /\ denial.frameKept

\* C25: at most one MediaRecorder is capturing at a time, and once
\* stopRecording has run (mediaRecorder is null, no getUserMedia pending)
\* and isRecording is false, no recorder is capturing.
C25_OneRecorderCapturing ==
    /\ Cardinality(Capturing(recorders)) <= 1
    /\ (~isRecording /\ mediaRecorder = 0 /\ micRequests = 0) =>
          Capturing(recorders) = {}

\* C26: whenever isRecording is true the mic button is enabled.
C26_MicEnabledWhileRecording ==
    isRecording => ~ui.micDisabled

====
